---- MODULE Spec2Model ----
(***************************************************************************)
(* A model of deephaven/plot/express/plots/_private_utils.py: the affine   *)
(* remapping of positions (get_new_positions), the resizing and            *)
(* renumbering of a figure's axes (resize), the composition of figures     *)
(* (layer) and the column-wise driver (preprocess_and_layer).              *)
(*                                                                         *)
(* Python values are represented as follows.                               *)
(*   - a float is an exact rational <<n, d>> with d > 0, in lowest terms    *)
(*     (rounding is not modelled);                                         *)
(*   - a str is a TLA+ string; None is the string "None" where a str or an *)
(*     int may also stand, and the record NoneFig where a figure may;      *)
(*   - a dict whose key order the code never observes (a trace, an axis     *)
(*     object, a DomainBox) is a function from its keys to its values;     *)
(*   - the layout dict, whose key order decides the numbering in resize,   *)
(*     is a sequence of entries [key, kind, val] in insertion order, kind  *)
(*     being the run-time type of the value ("dict", "bool" or "str");     *)
(*   - a raised exception is the name of its class, "none" when the call   *)
(*     returned.                                                           *)
(***************************************************************************)
EXTENDS Integers, Sequences, FiniteSets, TLC

VARIABLES
    entry,              \* the function that was called
    pc,                 \* where the call stands
    args,               \* layer: *args
    which_layout,       \* layer: which_layout ("None" or an index)
    domains,            \* layer: domains ("None" is <<>>, like an empty list)
    unsafe_update,      \* layer: what the callback did, "unset" until it is called
    i,                  \* layer: the loop index
    new_data,           \* layer: the traces so far
    new_layout,         \* layer: the layout so far
    new_data_mappings,  \* layer: the data mappings so far
    new_has_template,   \* layer
    new_has_color,      \* layer
    new_axes_start,     \* layer: the counters of resize, one per family
    history,            \* per folded input: what fig_data_and_layout returned
    update_calls,       \* how many times layer applied unsafe_update
    raised,             \* the exception that ended the call, "none" if none
    ret,                \* the value returned
    call,               \* preprocess_and_layer / get_new_positions: arguments
    new_positions       \* get_new_positions: the positions so far

vars == <<entry, pc, args, which_layout, domains, unsafe_update, i, new_data,
          new_layout, new_data_mappings, new_has_template, new_has_color,
          new_axes_start, history, update_calls, raised, ret, call,
          new_positions>>

(***************************************************************************)
(* Bounds of the model.                                                    *)
(***************************************************************************)
MaxArgs == 2
MaxAxisNum == 3
MaxCols == 2
MaxPositions == 2

(***************************************************************************)
(* Exact rational arithmetic, standing for Python's float arithmetic.      *)
(***************************************************************************)
Abs(n) == IF n < 0 THEN -n ELSE n

RECURSIVE GCD(_, _)
GCD(a, b) == IF b = 0 THEN a ELSE GCD(b, a % b)

Rat(n, d) ==
    LET g == GCD(Abs(n), Abs(d))
        s == IF d < 0 THEN -1 ELSE 1
    IN  <<(s * n) \div g, (s * d) \div g>>

RAdd(p, q) == Rat(p[1] * q[2] + q[1] * p[2], p[2] * q[2])
RSub(p, q) == Rat(p[1] * q[2] - q[1] * p[2], p[2] * q[2])
RMul(p, q) == Rat(p[1] * q[1], p[2] * q[2])
RDiv(p, q) == Rat(p[1] * q[2], p[2] * q[1])
RZero == Rat(0, 1)
ROne == Rat(1, 1)
RHalf == Rat(1, 2)

(***************************************************************************)
(* dict helpers.                                                           *)
(***************************************************************************)
Has(obj, f) == f \in DOMAIN obj

\* dict.get(f, None) for a DomainBox: <<>> stands for None (both are falsy)
BoxGet(box, f) == IF Has(box, f) THEN box[f] ELSE <<>>

\* obj.update(upd) on a dict whose key order is not observed
ObjUpdate(obj, upd) == upd @@ obj

Ok(v) == [err |-> "none", val |-> v]
Err(e) == [err |-> e, val |-> <<>>]

(***************************************************************************)
(* normalize_position and get_new_positions.                               *)
(***************************************************************************)
\* faulty variant: a zero range is taken as the unit range instead of dividing by it
normalize_position_guarded(position, chart_start, chart_range) ==
    IF chart_range = RZero
    THEN Ok(RSub(position, chart_start))
    ELSE Ok(RDiv(RSub(position, chart_start), chart_range))

\* (position - chart_start) / chart_range; Python's float division raises
\* ZeroDivisionError on a zero divisor
normalize_position(position, chart_start, chart_range) ==
    IF chart_range = RZero
    THEN Err("ZeroDivisionError")
    ELSE Ok(RDiv(RSub(position, chart_start), chart_range))

\* line 66, for the value line 65 gave, or the exception it raised
scaled(new_domain, normalized) ==
    IF normalized.err # "none"
    THEN normalized
    ELSE Ok(RAdd(new_domain[1],
                 RMul(normalized.val, RSub(new_domain[2], new_domain[1]))))

\* one pass of the loop body of get_new_positions (lines 64-66)
new_position_of(new_domain, position, chart_domain) ==
    scaled(new_domain,
           normalize_position(position, chart_domain[1],
                              RSub(chart_domain[2], chart_domain[1])))

RECURSIVE positions_loop(_, _, _, _)
\* line 67 for the position p of the first of positions, and the loop's rest
positions_next(new_domain, positions, chart_domain, acc, p) ==
    IF p.err # "none"
    THEN Err(p.err)
    ELSE positions_loop(new_domain, Tail(positions), chart_domain,
                        Append(acc, p.val))

\* the loop of lines 63-67
positions_loop(new_domain, positions, chart_domain, acc) ==
    IF positions = <<>>
    THEN Ok(acc)
    ELSE positions_next(new_domain, positions, chart_domain, acc,
                        new_position_of(new_domain, Head(positions), chart_domain))

\* get_new_positions on a list of positions
get_new_positions(new_domain, positions, chart_domain) ==
    positions_loop(new_domain, positions, chart_domain, <<>>)

\* get_new_positions on a position that is not a list: it is wrapped (line 60)
get_new_positions_scalar(new_domain, position, chart_domain) ==
    get_new_positions(new_domain, <<position>>, chart_domain)

UnitDomain == <<RZero, ROne>>

(***************************************************************************)
(* resize_domain and resize_xy_axis.  Both return the updated object, or   *)
(* the exception that left the call.                                       *)
(***************************************************************************)
\* get_new_positions under "if new_domain_x:", <<>> when the branch is skipped
positions_if(new_domain_1d, positions) ==
    IF new_domain_1d # <<>>
    THEN get_new_positions(new_domain_1d, positions, UnitDomain)
    ELSE Ok(<<>>)

\* lines 92-97, px and py being what the two calls gave; only ValueError is
\* caught (line 98), and nothing raises it
domain_updated(obj, new_domain_x, new_domain_y, px, py) ==
    IF px.err # "none" THEN Err(px.err)
    ELSE IF py.err # "none" THEN Err(py.err)
    ELSE IF new_domain_x = <<>> /\ new_domain_y = <<>> THEN Ok(obj)
    ELSE Ok(ObjUpdate(obj, "domain" :>
                ((IF new_domain_x # <<>> THEN "x" :> px.val ELSE <<>>) @@
                 (IF new_domain_y # <<>> THEN "y" :> py.val ELSE <<>>))))

resize_domain(obj, new_domain) ==
    \* lines 86-87 stand before the try: a missing key raises KeyError
    IF ~Has(obj, "domain") \/ ~Has(obj["domain"], "x") \/ ~Has(obj["domain"], "y")
    THEN Err("KeyError")
    ELSE domain_updated(obj, BoxGet(new_domain, "x"), BoxGet(new_domain, "y"),
                        positions_if(BoxGet(new_domain, "x"), obj["domain"]["x"]),
                        positions_if(BoxGet(new_domain, "y"), obj["domain"]["y"]))

\* lines 122-133, same being the new domain along the axis and other the one
\* across it, pd and pp what the two calls gave
axis_updated(axis, same, other, pd, pp) ==
    IF pd.err # "none" THEN Err(pd.err)
    ELSE IF pp.err # "none" THEN Err(pp.err)
    ELSE Ok(ObjUpdate(axis,
                (IF same # <<>> THEN "domain" :> pd.val ELSE <<>>) @@
                (IF other # <<>> /\ Has(axis, "position")
                 THEN "position" :> pp.val[1] ELSE <<>>)))

\* get_new_positions on axis_position, which is not a list, under
\* "if new_domain_<other> and axis_position is not None"
position_if(other, axis) ==
    IF other # <<>> /\ Has(axis, "position")
    THEN get_new_positions_scalar(other, axis["position"], UnitDomain)
    ELSE Ok(<<>>)

resize_xy_axis(axis, new_domain, which) ==
    \* line 118 stands before the try: a missing key raises KeyError
    IF ~Has(axis, "domain")
    THEN Err("KeyError")
    ELSE axis_updated(axis,
                      BoxGet(new_domain, which),
                      BoxGet(new_domain, IF which = "x" THEN "y" ELSE "x"),
                      positions_if(BoxGet(new_domain, which), axis["domain"]),
                      position_if(BoxGet(new_domain, IF which = "x" THEN "y" ELSE "x"),
                                  axis))

(***************************************************************************)
(* Layout keys.  A key is a str; the keys of the axis families are the     *)
(* family name followed by nothing or by a numeral.                        *)
(***************************************************************************)
Families == <<"xaxis", "yaxis", "scene", "polar", "ternary">>
FamilySet == {Families[n] : n \in 1..Len(Families)}

\* the numerals an input's layout key may end with
Suffixes == {""} \cup {ToString(n) : n \in 2..MaxAxisNum}

\* k.startswith(prefix), for the keys of the model
StartsWith(k, prefix) == \E s \in Suffixes : k = prefix \o s

\* old_axis.replace(type_, which), for a key that starts with type_
Replace(old_axis, type_, which) ==
    which \o (CHOOSE s \in Suffixes : old_axis = type_ \o s)

\* the if/elif chain of lines 243-256; "None" when no prefix matches
type_of(k) ==
    IF StartsWith(k, "xaxis") THEN "xaxis"
    ELSE IF StartsWith(k, "yaxis") THEN "yaxis"
    ELSE IF StartsWith(k, "scene") THEN "scene"
    ELSE IF StartsWith(k, "polar") THEN "polar"
    ELSE IF StartsWith(k, "ternary") THEN "ternary"
    ELSE "None"

\* line 260: axes start at 1, and the 1 is dropped
num_of(start) == IF start = 1 THEN "" ELSE ToString(start)

\* faulty variant: the counter is not advanced
next_start_stuck(start) == start

\* line 261
next_start(start) == start + 1

(***************************************************************************)
(* Ordered dicts (the layout).                                             *)
(***************************************************************************)
Keys(d) == {d[n].key : n \in 1..Len(d)}
Index(d, k) == CHOOSE n \in 1..Len(d) : d[n].key = k
Lookup(d, k) == d[Index(d, k)]

\* d[e.key] = e.val: an existing key keeps its place
Put(d, e) ==
    IF e.key \in Keys(d)
    THEN [d EXCEPT ![Index(d, e.key)] = e]
    ELSE Append(d, e)

\* d.update(u)
RECURSIVE DictUpdate(_, _)
DictUpdate(d, u) ==
    IF u = <<>> THEN d ELSE DictUpdate(Put(d, Head(u)), Tail(u))

\* d after d.pop(k) for every k of ks
RECURSIVE PopAll(_, _)
PopAll(d, ks) ==
    IF d = <<>> THEN <<>>
    ELSE IF Head(d).key \in ks THEN PopAll(Tail(d), ks)
    ELSE <<Head(d)>> \o PopAll(Tail(d), ks)

(***************************************************************************)
(* reassign_axes, reassign_attributes, resize_axis, resize.                *)
(***************************************************************************)
TraceRefFields == <<"xaxis", "yaxis", "scene", "subplot", "ternary">>

\* the five updates of reassign_axes in order; a reference the remapping
\* does not hold raises KeyError
RECURSIVE reassign_fields(_, _, _)
reassign_fields(trace, axes_remapping, fields) ==
    IF fields = <<>> THEN Ok(trace)
    ELSE LET f == Head(fields)
         IN  IF ~Has(trace, f)
             THEN reassign_fields(trace, axes_remapping, Tail(fields))
             ELSE IF ~Has(axes_remapping, trace[f])
             THEN Err("KeyError")
             ELSE reassign_fields([trace EXCEPT ![f] = axes_remapping[trace[f]]],
                                  axes_remapping, Tail(fields))

\* faulty variant: the y axis of a trace is not rewritten
reassign_axes_but_y(trace, axes_remapping) ==
    reassign_fields(trace, axes_remapping, <<"xaxis", "scene", "subplot", "ternary">>)

reassign_axes(trace, axes_remapping) ==
    reassign_fields(trace, axes_remapping, TraceRefFields)

\* faulty variant: a rewritten value is looked up in the remapping again
reassign_attributes_twice(axis, axes_remapping) ==
    LET again(v) == IF Has(axes_remapping, v) THEN axes_remapping[v] ELSE v
        a1 == IF Has(axis, "anchor") /\ Has(axes_remapping, axis["anchor"])
              THEN [axis EXCEPT !["anchor"] = again(axes_remapping[axis["anchor"]])]
              ELSE axis
    IN  IF Has(a1, "overlaying") /\ Has(axes_remapping, a1["overlaying"])
        THEN [a1 EXCEPT !["overlaying"] = again(axes_remapping[a1["overlaying"]])]
        ELSE a1

\* axis is a dict here
reassign_attributes(axis, axes_remapping) ==
    LET a1 == IF Has(axis, "anchor") /\ Has(axes_remapping, axis["anchor"])
              THEN [axis EXCEPT !["anchor"] = axes_remapping[axis["anchor"]]]
              ELSE axis
    IN  IF Has(a1, "overlaying") /\ Has(axes_remapping, a1["overlaying"])
        THEN [a1 EXCEPT !["overlaying"] = axes_remapping[a1["overlaying"]]]
        ELSE a1

\* reassign_attributes on a layout value of any run-time type: 'anchor' in v
\* raises TypeError on a bool; on a str it is a substring test, false for
\* every str of the model
reassign_attributes_entry(e, axes_remapping) ==
    IF e.kind = "dict" THEN Ok([e EXCEPT !.val = reassign_attributes(e.val, axes_remapping)])
    ELSE IF e.kind = "bool" THEN Err("TypeError")
    ELSE Ok(e)

\* what resize_axis returns, r being the resized axis or the exception
axis_result(r, new_axis, old_trace_axis, new_trace_axis) ==
    [err |-> r.err, axis |-> r.val, new_axis |-> new_axis,
     old_trace_axis |-> old_trace_axis, new_trace_axis |-> new_trace_axis]

resize_axis(type_, old_axis, axis, num, new_domain) ==
    IF type_ = "xaxis" \/ type_ = "yaxis"
    THEN axis_result(resize_xy_axis(axis, new_domain, IF type_ = "xaxis" THEN "x" ELSE "y"),
                     type_ \o num,
                     Replace(old_axis, type_, IF type_ = "xaxis" THEN "x" ELSE "y"),
                     (IF type_ = "xaxis" THEN "x" ELSE "y") \o num)
    ELSE axis_result(resize_domain(axis, new_domain),
                     type_ \o num, old_axis, type_ \o num)

\* the locals of resize after lines 260-268 for the item e of family type_,
\* r being what resize_axis returned
item_done(st, e, type_, r) ==
    IF r.err # "none"
    THEN [st EXCEPT !.err = r.err,
                    !.new_axes_start = [@ EXCEPT ![type_] = next_start(@)]]
    ELSE [err |-> "none",
          new_axes_start |-> [st.new_axes_start EXCEPT ![type_] = next_start(@)],
          old_axes |-> Append(st.old_axes, e.key),
          new_axes |-> Put(st.new_axes,
                           [key |-> r.new_axis, kind |-> e.kind, val |-> r.axis]),
          axes_remapping |-> (r.old_trace_axis :> r.new_trace_axis)
                                @@ st.axes_remapping]

\* lines 243-270 for one item
item_step(st, e, type_, new_domain) ==
    IF type_ = "None" THEN st
    ELSE item_done(st, e, type_,
                   resize_axis(type_, e.key, e.val,
                               num_of(st.new_axes_start[type_]), new_domain))

\* the loop of lines 241-270 over the items still to visit
RECURSIVE resize_items(_, _, _)
resize_items(items, new_domain, st) ==
    IF items = <<>> \/ st.err # "none" THEN st
    ELSE resize_items(Tail(items), new_domain,
                      item_step(st, Head(items), type_of(Head(items).key), new_domain))

\* lines 280-281
trace_domain(t, new_domain) ==
    IF t.err = "none" /\ Has(t.val, "domain")
    THEN resize_domain(t.val, new_domain)
    ELSE t

\* a list with t before the list rest, or the first exception of the two
Cons(t, rest) ==
    IF t.err # "none" THEN Err(t.err)
    ELSE IF rest.err # "none" THEN Err(rest.err)
    ELSE Ok(<<t.val>> \o rest.val)

\* the loop of lines 278-281
RECURSIVE resize_traces(_, _, _)
resize_traces(fig_data, axes_remapping, new_domain) ==
    IF fig_data = <<>> THEN Ok(<<>>)
    ELSE Cons(trace_domain(reassign_axes(Head(fig_data), axes_remapping), new_domain),
              resize_traces(Tail(fig_data), axes_remapping, new_domain))

\* the loop of lines 283-284
RECURSIVE resize_attributes(_, _)
resize_attributes(fig_layout, axes_remapping) ==
    IF fig_layout = <<>> THEN Ok(<<>>)
    ELSE Cons(reassign_attributes_entry(Head(fig_layout), axes_remapping),
              resize_attributes(Tail(fig_layout), axes_remapping))

\* what resize hands back: the data, the layout and the counters it leaves
\* in new_axes_start (a dict the caller shares), or the exception raised
resized(st, data, layout) ==
    IF st.err # "none" \/ data.err # "none" \/ layout.err # "none"
    THEN [err |-> IF st.err # "none" THEN st.err
                  ELSE IF data.err # "none" THEN data.err ELSE layout.err,
          data |-> <<>>, layout |-> <<>>,
          new_axes_start |-> st.new_axes_start,
          axes_remapping |-> st.axes_remapping]
    ELSE [err |-> "none", data |-> data.val, layout |-> layout.val,
          new_axes_start |-> st.new_axes_start,
          axes_remapping |-> st.axes_remapping]

\* lines 272-286, st being the locals the loop of lines 241-270 left
resize_rest(fig_data, fig_layout, new_domain, st) ==
    IF st.err # "none" THEN resized(st, Ok(<<>>), Ok(<<>>))
    ELSE resized(st,
                 resize_traces(fig_data, st.axes_remapping, new_domain),
                 resize_attributes(
                     DictUpdate(PopAll(fig_layout,
                                       {st.old_axes[n] : n \in 1..Len(st.old_axes)}),
                                st.new_axes),
                     st.axes_remapping))

resize(fig_data, fig_layout, new_domain, starts) ==
    IF DOMAIN new_domain = {}
    THEN [err |-> "none", data |-> fig_data, layout |-> fig_layout,
          new_axes_start |-> starts, axes_remapping |-> <<>>]
    ELSE resize_rest(fig_data, fig_layout, new_domain,
                     resize_items(fig_layout, new_domain,
                         [err |-> "none", new_axes_start |-> starts,
                          old_axes |-> <<>>, new_axes |-> <<>>,
                          axes_remapping |-> <<>>]))

(***************************************************************************)
(* fig_data_and_layout.  A plotly Figure is [data, layout]; fig.to_dict()  *)
(* gives fresh copies of both, so the inputs are never changed.            *)
(***************************************************************************)
\* Python's truth value of which_layout: <<>> is None, <<k>> the index k
Truthy(which) == which # <<>> /\ which[1] # 0

\* lines 315-319, the branch without domains
plain_layout(fig, idx, which) ==
    IF ~Truthy(which) \/ which[1] = idx THEN fig.layout ELSE <<>>

fig_data_and_layout(fig, idx, doms, which, starts) ==
    IF doms # <<>>
    THEN resize(fig.data, fig.layout, doms[idx + 1], starts)
    ELSE [err |-> "none", data |-> fig.data, layout |-> plain_layout(fig, idx, which),
          new_axes_start |-> starts, axes_remapping |-> <<>>]

(***************************************************************************)
(* DeephavenFigure, of ..deephaven_figure: only its fields and             *)
(* copy_mappings are used.  A data mapping holds the index of its trace    *)
(* (start_index) and names the data it feeds to it (data).                 *)
(***************************************************************************)
NoneFig == [none |-> TRUE]
IsNone(f) == Has(f, "none")

copy_mappings(mappings, offset) ==
    [n \in 1..Len(mappings) |->
        [mappings[n] EXCEPT !.start_index = @ + offset]]

\* faulty variant: the offset counts the inputs folded so far
offset_of_inputs(data, idx) == idx

\* line 374
offset_of(data, idx) == Len(data)

DeephavenFigure(fig, data_mappings, has_template, has_color, has_subplots) ==
    [type |-> "DeephavenFigure", fig |-> fig, data_mappings |-> data_mappings,
     has_template |-> has_template, has_color |-> has_color,
     has_subplots |-> has_subplots]

(***************************************************************************)
(* The figures a caller passes.  Every trace has a uid and every axis      *)
(* object a title that tell which trace or axis it is; At(p, n) makes them *)
(* differ between the inputs.                                              *)
(***************************************************************************)
At(p, n) == ToString(p) \o "." \o n

Dict(key, val) == [key |-> key, kind |-> "dict", val |-> val]
Bool(key, val) == [key |-> key, kind |-> "bool", val |-> val]
Str(key, val) == [key |-> key, kind |-> "str", val |-> val]

Title(text) == [text |-> text]
FullBox == [x |-> UnitDomain, y |-> UnitDomain]
HighNum == ToString(MaxAxisNum)

\* one x axis and one y axis, as plotly express draws them
FigXY(p) ==
    [data |-> <<[uid |-> At(p, "a"), xaxis |-> "x", yaxis |-> "y"]>>,
     layout |-> <<Dict("xaxis", [title |-> Title(At(p, "x")), anchor |-> "y",
                                 domain |-> UnitDomain]),
                  Dict("yaxis", [title |-> Title(At(p, "y")), anchor |-> "x",
                                 domain |-> UnitDomain])>>]

\* a second y axis, free on the right, over the first; the x axis is
\* anchored to the second
FigXYY(p) ==
    [data |-> <<[uid |-> At(p, "a"), xaxis |-> "x", yaxis |-> "y"],
                [uid |-> At(p, "b"), xaxis |-> "x", yaxis |-> "y2"]>>,
     layout |-> <<Dict("xaxis", [title |-> Title(At(p, "x")), anchor |-> "y2",
                                 domain |-> <<RZero, RHalf>>]),
                  Dict("yaxis", [title |-> Title(At(p, "y")), anchor |-> "x",
                                 domain |-> UnitDomain]),
                  Dict("yaxis2", [title |-> Title(At(p, "y2")), anchor |-> "free",
                                  overlaying |-> "y", position |-> RHalf,
                                  domain |-> UnitDomain])>>]

\* an x axis with a high number, listed before the y axis it is anchored to
FigHigh(p) ==
    [data |-> <<[uid |-> At(p, "a"), xaxis |-> "x" \o HighNum, yaxis |-> "y"]>>,
     layout |-> <<Dict("xaxis" \o HighNum, [title |-> Title(At(p, "x")), anchor |-> "y",
                                            domain |-> UnitDomain]),
                  Dict("yaxis", [title |-> Title(At(p, "y")), anchor |-> "x" \o HighNum,
                                 domain |-> UnitDomain])>>]

\* an axis that was given a title and no domain; its trace names no axis
FigNoDomain(p) ==
    [data |-> <<[uid |-> At(p, "a")]>>,
     layout |-> <<Dict("xaxis", [title |-> Title(At(p, "x"))])>>]

\* one subplot of each of the three families that are resized as a box
FigBoxes(p) ==
    [data |-> <<[uid |-> At(p, "a"), scene |-> "scene"],
                [uid |-> At(p, "b"), subplot |-> "polar"],
                [uid |-> At(p, "c"), subplot |-> "ternary"]>>,
     layout |-> <<Dict("scene", [title |-> Title(At(p, "s")), domain |-> FullBox]),
                  Dict("polar", [title |-> Title(At(p, "p")), domain |-> FullBox]),
                  Dict("ternary", [title |-> Title(At(p, "t")), domain |-> FullBox])>>]

\* a trace with a domain of its own and no axis
FigPie(p) ==
    [data |-> <<[uid |-> At(p, "a"), domain |-> FullBox]>>,
     layout |-> <<Dict("legend", [title |-> Title(At(p, "l"))]),
                  Str("hovermode", "closest")>>]

\* FigXY with the legend hidden by the caller
FigHidden(p) ==
    [data |-> FigXY(p).data,
     layout |-> FigXY(p).layout \o <<Bool("showlegend", FALSE)>>]

\* FigXY with both axes free and placed at the middle of the other dimension
FigFree(p) ==
    [data |-> <<[uid |-> At(p, "a"), xaxis |-> "x", yaxis |-> "y"]>>,
     layout |-> <<Dict("xaxis", [title |-> Title(At(p, "x")), anchor |-> "free",
                                 position |-> RHalf, domain |-> UnitDomain]),
                  Dict("yaxis", [title |-> Title(At(p, "y")), anchor |-> "free",
                                 position |-> RHalf, domain |-> <<RZero, RHalf>>])>>]

Figure(fig) == [type |-> "Figure", fig |-> fig]

\* the mappings generate_figure gives a figure: one per trace
MappingsOf(fig) ==
    [n \in 1..Len(fig.data) |-> [start_index |-> n - 1, data |-> fig.data[n].uid]]

\* what a caller may pass as the p-th argument (p counts from 0)
Inputs(p) ==
    <<Figure(FigHigh(p)), Figure(FigNoDomain(p)), Figure(FigBoxes(p)),
      Figure(FigHidden(p)), Figure(FigFree(p)),
      DeephavenFigure(FigXY(p), MappingsOf(FigXY(p)), FALSE, FALSE, FALSE),
      DeephavenFigure(FigXYY(p), MappingsOf(FigXYY(p)), FALSE, TRUE, FALSE),
      DeephavenFigure(FigPie(p), MappingsOf(FigPie(p)), TRUE, FALSE, FALSE),
      DeephavenFigure(FigXY(p), MappingsOf(FigXY(p)), FALSE, FALSE, TRUE),
      [type |-> "other"]>>

\* the DomainBoxes a caller may pass; the first has no key
Boxes ==
    <<<<>>,
      [x |-> <<RZero, RHalf>>],
      [x |-> <<RHalf, ROne>>, y |-> <<RZero, RHalf>>]>>

\* all sequences of length n over 1..k
RECURSIVE Choices(_, _)
Choices(n, k) ==
    IF n = 0 THEN {<<>>}
    ELSE {Append(c, m) : c \in Choices(n - 1, k), m \in 1..k}

(***************************************************************************)
(* The finishing callback.  "default" is default_callback; "in_place"      *)
(* changes the figure it is given and returns nothing; "returns" returns   *)
(* a changed figure.  Neither removes a trace.                             *)
(***************************************************************************)
Callbacks == {"default", "in_place", "returns"}

Touched(fig) == [fig EXCEPT !.layout = Put(@, Str("paper_bgcolor", "white"))]

\* the value the callback returns
callback_result(cb, fig) ==
    IF cb = "default" THEN fig
    ELSE IF cb = "in_place" THEN NoneFig
    ELSE Touched(fig)

\* the figure the callback was given, after the call
callback_effect(cb, fig) ==
    IF cb = "in_place" THEN Touched(fig) ELSE fig

(***************************************************************************)
(* layer.                                                                  *)
(***************************************************************************)
FreshStarts == [t \in FamilySet |-> 1]

Raise(e) ==
    /\ pc' = "raised"
    /\ raised' = e

\* lines 349-350
LayerEmpty ==
    /\ pc = "layer"
    /\ Len(args) = 0
    /\ Raise("ValueError")
    /\ UNCHANGED <<entry, args, which_layout, domains, unsafe_update, i, new_data,
                   new_layout, new_data_mappings, new_has_template, new_has_color,
                   new_axes_start, history, update_calls, ret, call, new_positions>>

\* lines 352-365
LayerStart ==
    /\ pc = "layer"
    /\ Len(args) # 0
    /\ pc' = "loop"
    /\ i' = 0
    /\ new_data' = <<>>
    /\ new_layout' = <<>>
    /\ new_data_mappings' = <<>>
    /\ new_has_template' = FALSE
    /\ new_has_color' = FALSE
    /\ new_axes_start' = FreshStarts
    /\ UNCHANGED <<entry, args, which_layout, domains, unsafe_update, history,
                   update_calls, raised, ret, call>>
    /\ UNCHANGED new_positions

\* lines 387-388, after fig_data_and_layout returned r for the input idx
Fold(r) ==
    /\ new_data' = new_data \o r.data
    /\ new_layout' = DictUpdate(new_layout, r.layout)
    /\ new_axes_start' = r.new_axes_start
    /\ history' = Append(history, [data |-> r.data, layout |-> r.layout,
                                   starts |-> new_axes_start])
    /\ i' = i + 1
    /\ pc' = "loop"
    /\ UNCHANGED raised

\* the end of a pass of the loop, r being what fig_data_and_layout gave
FoldOrRaise(r) ==
    IF r.err # "none"
    THEN /\ Raise(r.err)
         /\ UNCHANGED <<i, new_data, new_layout, new_axes_start, history>>
    ELSE Fold(r)

\* lines 368-371 and 387-388: the input is a plotly Figure
LayerFigure ==
    /\ pc = "loop"
    /\ i < Len(args)
    /\ args[i + 1].type = "Figure"
    /\ FoldOrRaise(fig_data_and_layout(args[i + 1].fig, i, domains, which_layout,
                                       new_axes_start))
    /\ UNCHANGED <<entry, args, which_layout, domains, unsafe_update,
                   new_data_mappings, new_has_template, new_has_color,
                   update_calls, ret, call, new_positions>>

\* lines 380-382, which an exception in line 377 skips
FoldMappings(arg, offset) ==
    IF pc' = "raised"
    THEN UNCHANGED <<new_data_mappings, new_has_template, new_has_color>>
    ELSE /\ new_data_mappings' =
                new_data_mappings \o copy_mappings(arg.data_mappings, offset)
         /\ new_has_template' = (arg.has_template \/ new_has_template)
         /\ new_has_color' = (arg.has_color \/ new_has_color)

\* lines 373-382 and 387-388: the input is a DeephavenFigure without subplots
LayerDeephavenFigure ==
    /\ pc = "loop"
    /\ i < Len(args)
    /\ args[i + 1].type = "DeephavenFigure"
    /\ ~args[i + 1].has_subplots
    /\ FoldOrRaise(fig_data_and_layout(args[i + 1].fig, i, domains, which_layout,
                                       new_axes_start))
    /\ FoldMappings(args[i + 1], offset_of(new_data, i))
    /\ UNCHANGED <<entry, args, which_layout, domains, unsafe_update,
                   update_calls, ret, call, new_positions>>

\* lines 375-376
LayerSubplots ==
    /\ pc = "loop"
    /\ i < Len(args)
    /\ args[i + 1].type = "DeephavenFigure"
    /\ args[i + 1].has_subplots
    /\ Raise("NotImplementedError")
    /\ UNCHANGED <<entry, args, which_layout, domains, unsafe_update, i, new_data,
                   new_layout, new_data_mappings, new_has_template, new_has_color,
                   new_axes_start, history, update_calls, ret, call, new_positions>>

\* lines 384-385
LayerOther ==
    /\ pc = "loop"
    /\ i < Len(args)
    /\ args[i + 1].type \notin {"Figure", "DeephavenFigure"}
    /\ Raise("TypeError")
    /\ UNCHANGED <<entry, args, which_layout, domains, unsafe_update, i, new_data,
                   new_layout, new_data_mappings, new_has_template, new_has_color,
                   new_axes_start, history, update_calls, ret, call, new_positions>>

\* line 392: new_fig = unsafe_update(new_fig)
applied(cb, fig) == callback_result(cb, fig)

\* lines 390-401.  What the callback does shows only here, so the callback
\* the caller passed is chosen here; preprocess_and_layer passes none
LayerFinish ==
    /\ pc = "loop"
    /\ i = Len(args)
    /\ \E cb \in IF entry = "layer" THEN Callbacks ELSE {"default"} :
         /\ unsafe_update' = cb
         /\ ret' = DeephavenFigure(applied(cb, [data |-> new_data, layout |-> new_layout]),
                                   new_data_mappings, new_has_template,
                                   new_has_color, TRUE)
    /\ update_calls' = update_calls + 1
    /\ pc' = "layered"
    /\ UNCHANGED <<entry, args, which_layout, domains, i, new_data,
                   new_layout, new_data_mappings, new_has_template, new_has_color,
                   new_axes_start, history, raised, call, new_positions>>

(***************************************************************************)
(* preprocess_and_layer.  generate_figure and update_traces belong to      *)
(* ..deephaven_figure and update_layout to plotly; they are modelled by    *)
(* what they are documented to do.                                         *)
(***************************************************************************)
Columns == <<"a", "b">>

\* the figure drawn for the columns cs: one trace per column, the axes of
\* FigXY, and the layout's showlegend as the draw function left it
GeneratedFigure(cs, drawn_showlegend) ==
    LET fig == [data |-> [n \in 1..Len(cs) |->
                             [uid |-> cs[n], xaxis |-> "x", yaxis |-> "y"]],
                layout |-> FigXY(cs[1]).layout \o
                           (IF drawn_showlegend = "absent" THEN <<>>
                            ELSE <<Bool("showlegend", drawn_showlegend = "True")>>)]
    IN  DeephavenFigure(fig, MappingsOf(fig), FALSE, FALSE, FALSE)

\* trace_legend_generator: the updates it yields, in order
trace_legend_generator(cols) ==
    [n \in 1..Len(cols) |-> [name |-> cols[n], showlegend |-> TRUE]]

\* update_traces: the n-th trace takes the n-th update, while there is one
update_traces(fig, updates) ==
    [fig EXCEPT !.data =
        [n \in 1..Len(fig.data) |->
            IF n <= Len(updates) THEN ObjUpdate(fig.data[n], updates[n])
            ELSE fig.data[n]]]

\* the layout_update dict of update_legend_and_titles (lines 505-529), as
\* entries [key, sub, kind, val]: layout.<key> when sub is "", otherwise
\* the property <sub> of layout.<key> (plotly's underscore notation)
AxisTitle(axis, name) ==
    IF name = "None" THEN <<>>
    ELSE <<[key |-> axis \o "axis", sub |-> "title_text", kind |-> "str", val |-> name]>>

layout_update_of(var, is_list, list_var_axis_name, list_val_axis_name, str_var_axis_name, str_val_axis_name) ==
    LET other_var == IF var = "x" THEN "y" ELSE "x"
    IN  IF is_list
        THEN <<[key |-> "legend", sub |-> "title_text", kind |-> "str", val |-> "variable"],
               [key |-> "legend", sub |-> "tracegroupgap", kind |-> "str", val |-> "0"]>>
             \o AxisTitle(var, list_var_axis_name)
             \o AxisTitle(other_var, list_val_axis_name)
        ELSE <<[key |-> "showlegend", sub |-> "", kind |-> "bool", val |-> FALSE]>>
             \o AxisTitle(var, str_var_axis_name)
             \o AxisTitle(other_var, str_val_axis_name)

\* plotly's update_layout for one entry
update_layout_entry(layout, u) ==
    IF u.sub = ""
    THEN Put(layout, [key |-> u.key, kind |-> u.kind, val |-> u.val])
    ELSE LET old == IF u.key \in Keys(layout) THEN Lookup(layout, u.key).val ELSE <<>>
             new == IF u.sub = "title_text"
                    THEN ObjUpdate(old, "title" :> Title(u.val))
                    ELSE ObjUpdate(old, u.sub :> u.val)
         IN  Put(layout, Dict(u.key, new))

RECURSIVE update_layout(_, _)
update_layout(layout, upd) ==
    IF upd = <<>> THEN layout
    ELSE update_layout(update_layout_entry(layout, Head(upd)), Tail(upd))

\* update_legend_and_titles on the DeephavenFigure dh
update_legend_and_titles(dh, var, cols, is_list, list_var_axis_name, list_val_axis_name, str_var_axis_name, str_val_axis_name) ==
    LET fig1 == IF is_list
                THEN update_traces(dh.fig, trace_legend_generator(cols))
                ELSE dh.fig
        upd == layout_update_of(var, is_list, list_var_axis_name, list_val_axis_name,
                                str_var_axis_name, str_val_axis_name)
    IN  [dh EXCEPT !.fig = [fig1 EXCEPT !.layout = update_layout(@, upd)]]

\* lines 568-598: cols = args[var] is call.cols, a list when call.is_list and
\* otherwise the one column call.cols[1]
DriverFigs ==
    /\ pc = "driver"
    /\ args' = IF call.skip_layer
               THEN <<GeneratedFigure(call.cols, call.drawn_showlegend)>>
               ELSE [n \in 1..Len(call.cols) |->
                        GeneratedFigure(<<call.cols[n]>>, call.drawn_showlegend)]
    \* line 592
    /\ call' = IF call.skip_layer /\ ~call.is_list
               THEN [call EXCEPT !.str_var_axis_name = call.cols[1]]
               ELSE call
    \* line 600: layer(*figs, which_layout=0)
    /\ which_layout' = <<0>>
    /\ domains' = <<>>
    /\ pc' = "layer"
    /\ UNCHANGED <<entry, unsafe_update, i, new_data, new_layout, new_data_mappings,
                   new_has_template, new_has_color, new_axes_start, history,
                   update_calls, raised, ret, new_positions>>

\* lines 603-607
DriverTitles ==
    /\ pc = "layered"
    /\ entry = "preprocess_and_layer"
    /\ ret' = update_legend_and_titles(ret, call.var, call.cols, call.is_list,
                  call.list_var_axis_name, call.list_val_axis_name,
                  call.str_var_axis_name, call.str_val_axis_name)
    /\ pc' = "titled"
    /\ UNCHANGED <<entry, args, which_layout, domains, unsafe_update, i, new_data,
                   new_layout, new_data_mappings, new_has_template, new_has_color,
                   new_axes_start, history, update_calls, raised, call, new_positions>>

\* lines 610-613: the callback is given the DeephavenFigure
DriverReturn ==
    /\ pc = "titled"
    /\ LET cb == call.unsafe_update
           layered == [ret EXCEPT !.fig = callback_effect(cb, @)]
           new_fig == IF cb = "in_place" THEN NoneFig
                      ELSE [ret EXCEPT !.fig = callback_result(cb, @)]
       IN  ret' = IF IsNone(new_fig) THEN layered ELSE new_fig
    /\ pc' = "returned"
    /\ UNCHANGED <<entry, args, which_layout, domains, unsafe_update, i, new_data,
                   new_layout, new_data_mappings, new_has_template, new_has_color,
                   new_axes_start, history, update_calls, raised, call, new_positions>>

(***************************************************************************)
(* get_new_positions, one pass of its loop at a time.                      *)
(***************************************************************************)
\* lines 63-67
GetNewPosition ==
    /\ pc = "positions"
    /\ Len(new_positions) < Len(call.positions)
    /\ LET p == new_position_of(call.new_domain,
                                call.positions[Len(new_positions) + 1],
                                call.chart_domain)
       IN  IF p.err # "none"
           THEN Raise(p.err) /\ UNCHANGED new_positions
           ELSE /\ new_positions' = Append(new_positions, p.val)
                /\ UNCHANGED <<pc, raised>>
    /\ UNCHANGED <<entry, args, which_layout, domains, unsafe_update, i, new_data,
                   new_layout, new_data_mappings, new_has_template, new_has_color,
                   new_axes_start, history, update_calls, ret, call>>

\* line 68
GetNewPositionsReturn ==
    /\ pc = "positions"
    /\ Len(new_positions) = Len(call.positions)
    /\ ret' = new_positions
    /\ pc' = "returned"
    /\ UNCHANGED <<entry, args, which_layout, domains, unsafe_update, i, new_data,
                   new_layout, new_data_mappings, new_has_template, new_has_color,
                   new_axes_start, history, update_calls, raised, call, new_positions>>

(***************************************************************************)
(* The calls.                                                              *)
(***************************************************************************)
NoCall == [none |-> TRUE]

Idle ==
    /\ i = 0
    /\ new_data = <<>>
    /\ new_layout = <<>>
    /\ new_data_mappings = <<>>
    /\ new_has_template = FALSE
    /\ new_has_color = FALSE
    /\ new_axes_start = FreshStarts
    /\ history = <<>>
    /\ update_calls = 0
    /\ raised = "none"
    /\ ret = <<>>
    /\ new_positions = <<>>

\* layer(*args, which_layout=..., domains=..., unsafe_update=...): domains,
\* when given, has one box per argument, and then which_layout is left out
InitLayer ==
    /\ entry = "layer"
    /\ pc = "layer"
    /\ call = NoCall
    /\ \E n \in 0..MaxArgs :
         /\ \E c \in Choices(n, Len(Inputs(0))) :
              args = [p \in 1..n |-> Inputs(p - 1)[c[p]]]
         /\ \/ /\ domains = <<>>
               /\ which_layout \in {<<>>} \cup {<<k>> : k \in 0..(MaxArgs - 1)}
            \/ /\ n > 0
               /\ \E d \in Choices(n, Len(Boxes)) :
                    domains = [p \in 1..n |-> Boxes[d[p]]]
               /\ which_layout = <<>>
    /\ unsafe_update = "unset"
    /\ Idle

RECURSIVE ColumnLists(_)
ColumnLists(n) ==
    IF n = 0 THEN {<<>>}
    ELSE ColumnLists(n - 1) \cup
         {Append(c, Columns[m]) : c \in {l \in ColumnLists(n - 1) : Len(l) = n - 1},
                                  m \in 1..Len(Columns)}

\* preprocess_and_layer(preprocesser, draw, args, var, ...): args[var] is one
\* column or a list of columns
InitDriver ==
    /\ entry = "preprocess_and_layer"
    /\ pc = "driver"
    /\ \E is_list \in BOOLEAN, named \in BOOLEAN :
         \E cols \in IF is_list THEN ColumnLists(MaxCols)
                     ELSE {<<Columns[m]>> : m \in 1..Len(Columns)} :
           \* with skip_layer the columns go to one figure, which needs one
           /\ call \in [var : {"x", "y"}, cols : {cols}, is_list : {is_list},
                        skip_layer : IF cols = <<>> THEN {FALSE} ELSE BOOLEAN,
                        drawn_showlegend : {"absent", "False", "True"},
                        list_var_axis_name : {IF named THEN "value" ELSE "None"},
                        list_val_axis_name : {"None"},
                        str_var_axis_name : {"None"},
                        str_val_axis_name : {IF named THEN "count" ELSE "None"},
                        unsafe_update : Callbacks]
    /\ args = <<>>
    /\ which_layout = <<>>
    /\ domains = <<>>
    /\ unsafe_update = "unset"
    /\ Idle

Values == {RZero, RHalf, ROne}

RECURSIVE ValueLists(_)
ValueLists(n) ==
    IF n = 0 THEN {<<>>}
    ELSE ValueLists(n - 1) \cup
         {Append(c, v) : c \in {l \in ValueLists(n - 1) : Len(l) = n - 1}, v \in Values}

\* get_new_positions(new_domain, positions, chart_domain); a position that
\* is not a list is a list of one after line 60
InitPositions ==
    /\ entry = "get_new_positions"
    /\ pc = "positions"
    /\ call \in [new_domain : {<<RZero, RHalf>>, <<RHalf, ROne>>},
                 positions : ValueLists(MaxPositions),
                 chart_domain : Values \X Values]
    /\ args = <<>>
    /\ which_layout = <<>>
    /\ domains = <<>>
    /\ unsafe_update = "unset"
    /\ Idle

Init == InitLayer \/ InitDriver \/ InitPositions

Next ==
    \/ LayerEmpty
    \/ LayerStart
    \/ LayerFigure
    \/ LayerDeephavenFigure
    \/ LayerSubplots
    \/ LayerOther
    \/ LayerFinish
    \/ DriverFigs
    \/ DriverTitles
    \/ DriverReturn
    \/ GetNewPosition
    \/ GetNewPositionsReturn

Spec == Init /\ [][Next]_vars

(***************************************************************************)
(* Properties.  The helpers below read the state; they model no code.      *)
(***************************************************************************)
IsFigure(arg) == arg.type \in {"Figure", "DeephavenFigure"}

\* the call to layer has folded every input and built its result
Layered == pc \in {"layered", "titled", "returned"} /\ entry # "get_new_positions"

\* the inputs folded so far
Folded == 1..Len(history)

\* the box of input p is given and has a key: resize renumbered the input
Resized(p) == domains # <<>> /\ DOMAIN domains[p] # {}

\* the entries of a layout that an input's resize loop takes for axes
RECURSIVE AxesOf(_)
AxesOf(layout) ==
    IF layout = <<>> THEN <<>>
    ELSE IF type_of(Head(layout).key) # "None"
         THEN <<Head(layout)>> \o AxesOf(Tail(layout))
         ELSE AxesOf(Tail(layout))

\* the last n entries of a sequence
Last(seq, n) == SubSeq(seq, Len(seq) - n + 1, Len(seq))

RECURSIVE Sum(_, _)
Sum(f, S) ==
    IF S = {} THEN 0
    ELSE LET x == CHOOSE y \in S : TRUE IN f[x] + Sum(f, S \ {x})

\* the numerals a key of the result may end with
KeyNums == 1..(MaxAxisNum * (MaxArgs + 1))
KeySuffixes == {""} \cup {ToString(n) : n \in KeyNums}
AxisKeys == {f \o sfx : f \in FamilySet, sfx \in KeySuffixes}

\* the layout key a trace's reference names: x and y references lack the
\* infix "axis", the others are the key itself; "?" if it is no reference
KeyOfRef(field, ref) ==
    IF field \in {"xaxis", "yaxis"}
    THEN LET which == IF field = "xaxis" THEN "x" ELSE "y"
         IN  IF \E sfx \in KeySuffixes : ref = which \o sfx
             THEN field \o (CHOOSE sfx \in KeySuffixes : ref = which \o sfx)
             ELSE "?"
    ELSE ref

(* C1: when layer is called without domains, the merged layout is the union
   of the inputs' layouts with the latest input's value for every key if
   which_layout is unset, and exactly the layout of input k if which_layout
   is the index k (k = 0 included). *)
LatestWith(key) ==
    CHOOSE p \in 1..Len(args) :
        /\ key \in Keys(args[p].fig.layout)
        /\ \A q \in (p + 1)..Len(args) : key \notin Keys(args[q].fig.layout)

C1_LayoutFollowsWhichLayout ==
    (Layered /\ domains = <<>>) =>
        IF which_layout = <<>>
        THEN /\ Keys(new_layout) =
                    UNION {Keys(args[p].fig.layout) : p \in 1..Len(args)}
             /\ \A n \in 1..Len(new_layout) :
                    new_layout[n] =
                        Lookup(args[LatestWith(new_layout[n].key)].fig.layout,
                               new_layout[n].key)
        ELSE new_layout = IF which_layout[1] < Len(args)
                          THEN args[which_layout[1] + 1].fig.layout
                          ELSE <<>>

(* C2: in a composition with domains, the axes that resize's loop meets
   get, family by family, the keys family, family2, family3, ... in the
   order met over all inputs, and no key is given twice. *)
\* the rank, within its family and over the whole composition, of the j-th
\* axis of input p
Rank(p, j) ==
    LET fam(q, m) == type_of(AxesOf(args[q].fig.layout)[m].key)
        f == fam(p, j)
    IN  Cardinality({m \in 1..(j - 1) : fam(p, m) = f}) +
        Sum([q \in 1..(p - 1) |->
                IF Resized(q)
                THEN Cardinality({m \in 1..Len(AxesOf(args[q].fig.layout)) : fam(q, m) = f})
                ELSE 0],
            1..(p - 1)) + 1

ExpectedKey(p, j) ==
    LET f == type_of(AxesOf(args[p].fig.layout)[j].key)
    IN  f \o (IF Rank(p, j) = 1 THEN "" ELSE ToString(Rank(p, j)))

\* the entries resize added to the layout of input p, in the order added
NewAxes(p) ==
    LET n == Len(AxesOf(args[p].fig.layout))
    IN  IF n <= Len(history[p].layout) THEN Last(history[p].layout, n) ELSE <<>>

NewKeyPlaces == {<<p, j>> \in Folded \X (1..Len(new_layout) + 1) :
                    Resized(p) /\ j <= Len(AxesOf(args[p].fig.layout))}

AxisKeysOf(layout) == Keys(layout) \cap AxisKeys

C3_NoAxisCollision ==
    (Layered /\ domains # <<>>) =>
        /\ \A p \in Folded : \A q \in Folded :
              p # q => AxisKeysOf(history[p].layout) \cap AxisKeysOf(history[q].layout) = {}
        /\ Cardinality(AxisKeysOf(new_layout)) =
              Sum([p \in 1..Len(args) |-> Cardinality(AxisKeysOf(args[p].fig.layout))],
                  1..Len(args))

(* C4: after resize of a figure with a non-empty new domain, every axis
   reference of a trace names a key of the new layout and the axis object
   under it is the one the trace referenced before; a field a trace lacked
   it still lacks. *)
SameAxis(old, new, field, t) ==
    LET old_key == KeyOfRef(field, old.data[t][field])
        new_key == KeyOfRef(field, new.data[t][field])
    IN  /\ new_key \in Keys(new.layout)
        /\ Lookup(new.layout, new_key).val["title"] =
               Lookup(old.layout, old_key).val["title"]

C4_TraceReferences ==
    \A p \in Folded :
        (pc \in {"loop", "layered"} /\ Resized(p)) =>
            LET old == args[p].fig
                new == history[p]
            IN  /\ Len(new.data) = Len(old.data)
                /\ \A t \in 1..Len(old.data) :
                      \A n \in 1..Len(TraceRefFields) :
                          LET field == TraceRefFields[n]
                          IN  /\ Has(new.data[t], field) <=> Has(old.data[t], field)
                              /\ Has(old.data[t], field) =>
                                     SameAxis(old, new, field, t)

\* the second input's y axes moved up by one, and so did its traces
C4_Witness ==
    /\ entry = "layer"
    /\ Len(history) = 2
    /\ Resized(2)
    /\ Len(args[2].fig.data) = 2
    /\ args[2].fig.data[2]["yaxis"] = "y2"
    /\ history[2].data[2]["yaxis"] = "y3"
    /\ ~Has(history[2].data[2], "scene")

(* C5: the data mappings of the result are those of the DeephavenFigures
   among the inputs, in input order, each shifted by the number of traces
   of all earlier inputs, so each still points at the trace it pointed at
   in its own figure. *)
TracesBefore(p) ==
    Sum([q \in 1..(p - 1) |-> Len(args[q].fig.data)], 1..(p - 1))

RECURSIVE ShiftedMappings(_)
ShiftedMappings(n) ==
    IF n = 0 THEN <<>>
    ELSE ShiftedMappings(n - 1) \o
         (IF args[n].type = "DeephavenFigure"
          THEN [m \in 1..Len(args[n].data_mappings) |->
                   [args[n].data_mappings[m] EXCEPT
                       !.start_index = @ + TracesBefore(n)]]
          ELSE <<>>)

C5_MappingOffsets ==
    (entry = "layer" /\ pc \in {"loop", "layered"}) =>
        /\ new_data_mappings = ShiftedMappings(Len(history))
        /\ \A m \in 1..Len(new_data_mappings) :
              /\ new_data_mappings[m].start_index < Len(new_data)
              /\ new_data[new_data_mappings[m].start_index + 1].uid =
                     new_data_mappings[m].data
        /\ pc = "layered" => ret.data_mappings = new_data_mappings

\* a figure of 3 traces, then a DeephavenFigure of 2: its indices move by 3
C5_Witness ==
    /\ entry = "layer"
    /\ pc = "layered"
    /\ Len(args) = 2
    /\ Len(args[1].fig.data) = 3
    /\ args[2].type = "DeephavenFigure"
    /\ Len(ret.data_mappings) = 2
    /\ ret.data_mappings[1].start_index = 3
    /\ ret.data_mappings[2].start_index = 4

(* C6: layer without figures fails with ValueError (EmptyInput), and layer
   with figures one of which is a DeephavenFigure with has_subplots fails
   with NotImplementedError (Unsupported) and returns nothing; a figure
   layer returns has has_subplots. *)
HasSubplotsInput ==
    \E p \in 1..Len(args) : args[p].type = "DeephavenFigure" /\ args[p].has_subplots

C6_Rejections ==
    (entry = "layer" /\ \A p \in 1..Len(args) : IsFigure(args[p])) =>
        /\ (pc \in {"raised", "layered"} /\ Len(args) = 0) =>
               (raised = "ValueError" /\ ret = <<>>)
        /\ (pc \in {"raised", "layered"} /\ HasSubplotsInput) =>
               (raised = "NotImplementedError" /\ ret = <<>>)
        /\ pc = "layered" => ret.has_subplots

(* C7: an axis or subplot object without a domain is skipped by the
   resizing and is no error: layer with domains does not fail with KeyError
   on an input whose layout holds such an object. *)
LacksDomain(fig) ==
    \E n \in 1..Len(fig.layout) :
        /\ type_of(fig.layout[n].key) # "None"
        /\ ~Has(fig.layout[n].val, "domain")

C7_MissingDomainIsNoError ==
    (/\ entry = "layer"
     /\ pc = "raised"
     /\ domains # <<>>
     /\ i < Len(args)
     /\ IsFigure(args[i + 1])
     /\ LacksDomain(args[i + 1].fig)) => raised # "KeyError"

(* C8: preprocess_and_layer returns a figure whose layout has showlegend
   true and whose traces are named after the columns, in order, each with
   showlegend true, when args[var] was a list; and whose layout has
   showlegend false when it was one column. *)
Showlegend(layout, b) ==
    /\ "showlegend" \in Keys(layout)
    /\ Lookup(layout, "showlegend").val = b

C8_LegendPolicy ==
    (entry = "preprocess_and_layer" /\ pc = "returned") =>
        IF call.is_list
        THEN /\ Showlegend(ret.fig.layout, TRUE)
             /\ Len(ret.fig.data) = Len(call.cols)
             /\ \A n \in 1..Len(call.cols) :
                    /\ Has(ret.fig.data[n], "name")
                    /\ ret.fig.data[n]["name"] = call.cols[n]
                    /\ ret.fig.data[n]["showlegend"]
        ELSE Showlegend(ret.fig.layout, FALSE)

(* C9: layer applies unsafe_update once, after the loop, and the figure it
   returns wraps a figure holding the concatenated traces, also when the
   callback returned nothing. *)
C9_CallbackResult ==
    (entry = "layer" /\ pc = "layered") =>
        /\ update_calls = 1
        /\ ~IsNone(ret.fig)
        /\ ret.fig.data = new_data

(* C10: get_new_positions with a chart_domain of zero width and at least
   one position fails and returns no positions.  As claimed, with
   ValueError (InvalidArgument); as amended, with ZeroDivisionError. *)
ZeroWidthCall ==
    /\ entry = "get_new_positions"
    /\ call.chart_domain[1] = call.chart_domain[2]
    /\ call.positions # <<>>

C10_ZeroWidthValueError ==
    (ZeroWidthCall /\ pc # "positions") =>
        (pc = "raised" /\ raised = "ValueError" /\ ret = <<>>)

C10_ZeroWidthFails ==
    ZeroWidthCall =>
        /\ new_positions = <<>>
        /\ ret = <<>>
        /\ pc \in {"positions", "raised"}
        /\ pc = "raised" => raised = "ZeroDivisionError"

C10_Witness ==
    /\ ZeroWidthCall
    /\ pc = "raised"
    /\ raised = "ZeroDivisionError"
    /\ Len(call.positions) = 2

(* C11: layering N figures that each have one x/y axis pair at the keys
   xaxis and yaxis, with one DomainBox per figure (a box may lack x, y or
   both), gives a layout with the 2N axis keys xaxis, yaxis, xaxis2,
   yaxis2, ...; the traces of the i-th figure reference x/y for i = 1 and
   x<i>/y<i> otherwise; each axis's domain [lo, hi] becomes
   [a + lo*(b-a), a + hi*(b-a)] along a dimension [a, b] of the figure's
   box and stays as it was along a dimension the box lacks; a position
   that is set is mapped the same way by the other dimension of the box. *)
OnePair(arg) ==
    /\ IsFigure(arg)
    /\ Len(AxesOf(arg.fig.layout)) = 2
    /\ AxisKeysOf(arg.fig.layout) = {"xaxis", "yaxis"}

\* a layering the property speaks of; a figure with subplots is rejected
OnePairCall ==
    /\ entry = "layer"
    /\ args # <<>>
    /\ \A p \in 1..Len(args) : OnePair(args[p])
    /\ ~HasSubplotsInput
    /\ Len(domains) = Len(args)

NumeralOf(p) == IF p = 1 THEN "" ELSE ToString(p)

\* v taken from the unit canvas into [a, b], written out
Affine(box, dim, v) ==
    IF Has(box, dim)
    THEN RAdd(box[dim][1], RMul(v, RSub(box[dim][2], box[dim][1])))
    ELSE v

\* the axis of input p along dim ("x" or "y") as the property has it
ExpectedAxis(p, dim) ==
    LET old == Lookup(args[p].fig.layout, dim \o "axis").val
        other == IF dim = "x" THEN "y" ELSE "x"
        sized == [old EXCEPT !["domain"] = <<Affine(domains[p], dim, old["domain"][1]),
                                             Affine(domains[p], dim, old["domain"][2])>>]
    IN  IF Has(old, "position")
        THEN [sized EXCEPT !["position"] = Affine(domains[p], other, old["position"])]
        ELSE sized

C11_OnePairLayering ==
    (OnePairCall /\ pc \in {"layered", "raised"}) =>
        /\ pc = "layered"
        /\ AxisKeysOf(new_layout) =
               {d \o "axis" \o NumeralOf(p) : d \in {"x", "y"}, p \in 1..Len(args)}
        /\ \A p \in 1..Len(args) :
              /\ \A t \in 1..Len(history[p].data) :
                    /\ history[p].data[t]["xaxis"] = "x" \o NumeralOf(p)
                    /\ history[p].data[t]["yaxis"] = "y" \o NumeralOf(p)
              /\ \A d \in {"x", "y"} :
                    LET new == Lookup(new_layout, d \o "axis" \o NumeralOf(p)).val
                        exp == ExpectedAxis(p, d)
                    IN  /\ new["domain"] = exp["domain"]
                        /\ new["title"] = exp["title"]
                        /\ Has(new, "position") <=> Has(exp, "position")
                        /\ Has(exp, "position") => new["position"] = exp["position"]

(* C12: after resize of a figure with a non-empty new domain, an anchor
   or overlaying value of a renumbered axis object that named an axis of
   the same figure is the new trace-level reference of that axis object,
   by one simultaneous substitution (also when old and new references
   overlap, as in y -> y2, y2 -> y3); a value that names no axis of the
   figure, such as "free", is as it was; an object has the attribute
   after resize exactly if it had it before. *)
AxisAttributes == {"anchor", "overlaying"}

\* the trace-level reference of a layout key: x and y axes drop "axis"
RefOfKey(key) ==
    IF \E sfx \in KeySuffixes : key = "xaxis" \o sfx
    THEN "x" \o (CHOOSE sfx \in KeySuffixes : key = "xaxis" \o sfx)
    ELSE IF \E sfx \in KeySuffixes : key = "yaxis" \o sfx
    THEN "y" \o (CHOOSE sfx \in KeySuffixes : key = "yaxis" \o sfx)
    ELSE key

\* the axes of the figure that the value v named before resize
Named(old, v) == {m \in 1..Len(old) : RefOfKey(old[m].key) = v}

C12_AttributeReferences ==
    \A p \in Folded :
        (pc \in {"loop", "layered"} /\ Resized(p)) =>
            LET old == AxesOf(args[p].fig.layout)
                new == NewAxes(p)
            IN  /\ Len(new) = Len(old)
                /\ \A j \in 1..Len(old) : \A attr \in AxisAttributes :
                      /\ Has(new[j].val, attr) <=> Has(old[j].val, attr)
                      /\ Has(old[j].val, attr) =>
                            IF Named(old, old[j].val[attr]) # {}
                            THEN \A m \in Named(old, old[j].val[attr]) :
                                     new[j].val[attr] = RefOfKey(new[m].key)
                            ELSE new[j].val[attr] = old[j].val[attr]

\* the second input's y, y2 became y2, y3: its x axis, anchored to y2, is
\* anchored to y3, its second y axis lies over y2 and is still free
C12_Witness ==
    /\ entry = "layer"
    /\ pc = "layered"
    /\ Len(history) = 2
    /\ Resized(2)
    /\ args[2].fig = FigXYY(1)
    /\ Lookup(args[2].fig.layout, "xaxis").val["anchor"] = "y2"
    /\ "yaxis3" \in Keys(history[2].layout)
    /\ Lookup(history[2].layout, "xaxis2").val["anchor"] = "y3"
    /\ Lookup(history[2].layout, "yaxis3").val["overlaying"] = "y2"
    /\ Lookup(history[2].layout, "yaxis3").val["anchor"] = "free"

====
